---- MODULE Spec2Model ----
(***************************************************************************)
(* Model of the retrieval-augmented tax chatbot backend:                   *)
(*   - the ingestion script (extractTextFromPDF, splitIntoChunks,          *)
(*     generateEmbedding, processPDF, main),                               *)
(*   - the chat controller in its two retrieval strategies (the           *)
(*     exhaustive in-process cosine scan and the store's $vectorSearch).   *)
(* Strings are sequences of one-character strings, so that splitting,      *)
(* trimming, joining and the extension regex are computed, not assumed.    *)
(***************************************************************************)
EXTENDS Integers, Sequences, FiniteSets, TLC

VARIABLES
  \* chunker harness
  text, chunkSize, chunks, cpc,
  \* the DocumentChunk collection, in insertion order
  store,
  \* retriever harness
  queryVec, found, rpc,
  \* chat controller: which of the controller's versions is deployed, and the
  \* state of each request in flight
  version, req,
  \* ingestion script: the pdfs folder and the outcomes of extraction and
  \* embedding (env), the run of main (ing), and what the runs left behind
  env, ing, hist

chunkVars == <<text, chunkSize, chunks, cpc>>
retrVars == <<queryVec, found, rpc>>
chatVars == <<version, req>>
ingestVars == <<env, ing, hist>>
vars == <<text, chunkSize, chunks, cpc, store, queryVec, found, rpc, version, req,
          env, ing, hist>>

(***************************************************************************)
(* Bounds of the model.                                                    *)
(***************************************************************************)
MaxTextLen == 6
MaxChunkSize == 3
\* chunks per document in the stores the retriever harness draws
MaxStoredPerDoc == 3
\* chunks per document in the stores the chat requests run against
MaxChatPerDoc == 2
\* chunks the text of an ingested document splits into
MaxDocChunks == 2
\* chunks in the store that concurrent requests query
MaxConcurrentChunks == 2

(***************************************************************************)
(* Strings.                                                                *)
(***************************************************************************)
\* the characters texts are drawn from: two letters, a blank and a newline
Chars == {"a", "b", " ", "\n"}

\* what /\s/ and String.prototype.trim treat as white space
IsSpace(c) == c \in {" ", "\n", "\t", "\r"}

RECURSIVE Flatten(_)
\* concatenation of a sequence of strings
Flatten(ss) == IF ss = <<>> THEN <<>> ELSE Head(ss) \o Flatten(Tail(ss))

RECURSIVE JoinRange(_, _, _, _)
\* ss[lo] sep ss[lo+1] sep ... ss[hi], halving the range (lo <= hi)
JoinRange(ss, sep, lo, hi) ==
  IF lo = hi THEN ss[lo]
  ELSE LET mid == (lo + hi) \div 2
       IN  JoinRange(ss, sep, lo, mid) \o sep \o JoinRange(ss, sep, mid + 1, hi)

\* Array.prototype.join(sep)
Join(ss, sep) == IF ss = <<>> THEN <<>> ELSE JoinRange(ss, sep, 1, Len(ss))

RECURSIVE TrimStart(_)
TrimStart(s) ==
  IF s # <<>> /\ IsSpace(Head(s)) THEN TrimStart(Tail(s)) ELSE s

RECURSIVE TrimEnd(_)
TrimEnd(s) ==
  IF s # <<>> /\ IsSpace(s[Len(s)]) THEN TrimEnd(SubSeq(s, 1, Len(s) - 1)) ELSE s

\* String.prototype.trim
Trim(s) == TrimEnd(TrimStart(s))

\* the tokens of two adjacent pieces of a string: the last token of the left
\* piece and the first token of the right piece are one token (both are empty
\* exactly when the cut falls inside a run of white space)
GlueTokens(l, r) ==
  SubSeq(l, 1, Len(l) - 1) \o <<l[Len(l)] \o r[1]>> \o SubSeq(r, 2, Len(r))

RECURSIVE SplitRange(_, _, _)
\* the tokens of s[lo..hi] under split(/\s+/): a white-space character ends a
\* token and opens the next, a maximal run of them counting once
SplitRange(s, lo, hi) ==
  IF lo > hi THEN << <<>> >>
  ELSE IF lo = hi
       THEN IF IsSpace(s[lo]) THEN << <<>>, <<>> >> ELSE << <<s[lo]>> >>
  ELSE LET mid == (lo + hi) \div 2
           l == SplitRange(s, lo, mid)
           r == SplitRange(s, mid + 1, hi)
       IN  IF IsSpace(s[mid]) /\ IsSpace(s[mid + 1])
           THEN SubSeq(l, 1, Len(l) - 1) \o r
           ELSE GlueTokens(l, r)

\* text.split(/\s+/)
SplitWhitespace(s) == SplitRange(s, 1, Len(s))

\* Array.prototype.slice(from, to) with 0-based from, exclusive to
Slice(ss, from, to) ==
  SubSeq(ss, from + 1, IF to > Len(ss) THEN Len(ss) ELSE to)

(***************************************************************************)
(* splitIntoChunks                                                         *)
(***************************************************************************)
NonBlank(word) == Len(Trim(word)) > 0

\* const words = text.split(/\s+/).filter((word) => word.trim().length > 0)
WordsOf(t) == SelectSeq(SplitWhitespace(t), NonBlank)

RECURSIVE ChunkLoopOverlap(_, _, _, _)
\* the loop with a window one word too long: slice(i, i + chunkSize + 1)
ChunkLoopOverlap(words, size, i, acc) ==
  IF i >= Len(words) THEN acc
  ELSE ChunkLoopOverlap(words, size, i + size,
                        Append(acc, Join(Slice(words, i, i + size + 1), <<" ">>)))

RECURSIVE ChunkLoop(_, _, _, _)
\* for (let i = 0; i < words.length; i += chunkSize) { ... }
ChunkLoop(words, size, i, acc) ==
  IF i >= Len(words) THEN acc
  ELSE LET chunk == Join(Slice(words, i, i + size), <<" ">>)
       IN  ChunkLoop(words, size, i + size,
                     IF Len(Trim(chunk)) > 0 THEN Append(acc, chunk) ELSE acc)

splitIntoChunks(t, size) == ChunkLoop(WordsOf(t), size, 0, <<>>)

(***************************************************************************)
(* Numbers.  A similarity is kept exactly: the record stands for           *)
(*     (off + sgn * sqrt(num / den)) / dv                                  *)
(* with num/den in lowest terms, or for NaN.  cosineSimilarity yields      *)
(* off = 0, dv = 1; the store's normalised cosine score (1 + cos) / 2      *)
(* yields off = 1, dv = 2.  The one-ulp rounding of IEEE doubles is not    *)
(* modelled; 0/0 = NaN and the 4-decimal rendering are.                    *)
(***************************************************************************)
NaN == [nan |-> TRUE, off |-> 0, dv |-> 1, sgn |-> 0, num |-> 0, den |-> 1]

RECURSIVE Gcd(_, _)
Gcd(a, b) == IF b = 0 THEN a ELSE Gcd(b, a % b)

Abs(x) == IF x < 0 THEN -x ELSE x
Sign(x) == IF x < 0 THEN -1 ELSE IF x > 0 THEN 1 ELSE 0

\* sgn * sqrt(n / d) for n >= 0, d > 0
Root(sgn, n, d) ==
  LET g == Gcd(n, d)
  IN  IF n = 0
      THEN [nan |-> FALSE, off |-> 0, dv |-> 1, sgn |-> 0, num |-> 0, den |-> 1]
      ELSE [nan |-> FALSE, off |-> 0, dv |-> 1, sgn |-> sgn,
            num |-> n \div g, den |-> d \div g]

\* x - y for two similarities, as far as a comparator's caller reads it: NaN
\* when either is NaN, else the sign of the difference (sgn * num / den, the
\* signed square, orders as the value does)
Subtract(x, y) ==
  IF x.nan \/ y.nan THEN [nan |-> TRUE, sign |-> 0]
  ELSE [nan |-> FALSE,
        sign |-> Sign(x.sgn * x.num * y.den - y.sgn * y.num * x.den)]

RECURSIVE RoundRoot(_, _, _, _, _)
\* the integer nearest to m * sqrt(n / d), searched in lo..hi
RoundRoot(m, n, d, lo, hi) ==
  IF lo = hi THEN lo
  ELSE LET mid == (lo + hi + 1) \div 2
       IN  IF (2 * mid - 1) * (2 * mid - 1) * d <= 4 * m * m * n
           THEN RoundRoot(m, n, d, mid, hi)
           ELSE RoundRoot(m, n, d, lo, mid - 1)

Digit == <<"0", "1", "2", "3", "4", "5", "6", "7", "8", "9">>

RECURSIVE DecStr(_)
\* the decimal digits of a natural number
DecStr(n) ==
  IF n < 10 THEN <<Digit[n + 1]>> ELSE DecStr(n \div 10) \o <<Digit[(n % 10) + 1]>>

\* Number.prototype.toFixed(4)
toFixed4(x) ==
  IF x.nan THEN <<"N", "a", "N">>
  ELSE LET m == 10000 \div x.dv
           n == m * x.off + x.sgn * RoundRoot(m, x.num, x.den, 0, m)
           a == Abs(n)
           frac == a % 10000
       IN  (IF n < 0 THEN <<"-">> ELSE <<>>)
           \o DecStr(a \div 10000) \o <<".">>
           \o <<Digit[(frac \div 1000) + 1], Digit[((frac \div 100) % 10) + 1],
                Digit[((frac \div 10) % 10) + 1], Digit[(frac % 10) + 1]>>

(***************************************************************************)
(* cosineSimilarity                                                        *)
(***************************************************************************)
RECURSIVE Reduce(_, _, _)
\* vec.reduce((sum, a, i) => sum + term(a, i), 0), terms[i] being term(vec[i], i)
Reduce(terms, i, sum) ==
  IF i > Len(terms) THEN sum ELSE Reduce(terms, i + 1, sum + terms[i])

cosineSimilarity(vecA, vecB) ==
  LET dotProduct == Reduce([i \in 1..Len(vecA) |-> vecA[i] * vecB[i]], 1, 0)
      sqA == Reduce([i \in 1..Len(vecA) |-> vecA[i] * vecA[i]], 1, 0)
      sqB == Reduce([i \in 1..Len(vecB) |-> vecB[i] * vecB[i]], 1, 0)
  IN  \* magnitudeA * magnitudeB = 0 forces dotProduct = 0, and 0 / 0 is NaN
      IF sqA * sqB = 0 THEN NaN
      ELSE Root(Sign(dotProduct), dotProduct * dotProduct, sqA * sqB)

(***************************************************************************)
(* Array.prototype.sort with the comparator (a, b) => b.similarity -       *)
(* a.similarity.  SortCompare turns a NaN comparator result into +0; with  *)
(* a NaN similarity the comparator is not consistent and the order is      *)
(* implementation-defined, so the outcomes of two engines are kept: the    *)
(* run detection plus binary insertion V8 uses below 64 elements, and a    *)
(* top-down merge sort.  Both are stable and agree without NaN.            *)
(***************************************************************************)
\* (a, b) => b.similarity - a.similarity
BySimilarityDesc(a, b) == Subtract(b.similarity, a.similarity)

\* SortCompare: "if v is NaN, return +0"
SortCompare(a, b) ==
  LET v == BySimilarityDesc(a, b) IN IF v.nan THEN 0 ELSE v.sign

Reverse(s) == [i \in 1..Len(s) |-> s[Len(s) + 1 - i]]

RECURSIVE RunLength(_, _, _)
\* CountAndMakeRun: how far the run that starts at arr[1] extends
RunLength(arr, desc, idx) ==
  IF idx > Len(arr) THEN idx - 1
  ELSE LET order == SortCompare(arr[idx], arr[idx - 1])
       IN  IF (desc /\ order >= 0) \/ (~desc /\ order < 0)
           THEN idx - 1
           ELSE RunLength(arr, desc, idx + 1)

RECURSIVE InsertionPoint(_, _, _, _)
\* BinaryInsertionSort: where pivot goes in arr[left..right-1]
InsertionPoint(arr, pivot, left, right) ==
  IF left >= right THEN left
  ELSE LET mid == left + ((right - left) \div 2)
       IN  IF SortCompare(pivot, arr[mid]) < 0
           THEN InsertionPoint(arr, pivot, left, mid)
           ELSE InsertionPoint(arr, pivot, mid + 1, right)

RECURSIVE BinaryInsertionSort(_, _)
\* arr[1..start-1] is in order; insert arr[start], arr[start+1], ...
BinaryInsertionSort(arr, start) ==
  IF start > Len(arr) THEN arr
  ELSE LET pivot == arr[start]
           at == InsertionPoint(arr, pivot, 1, start)
       IN  BinaryInsertionSort(
             SubSeq(arr, 1, at - 1) \o <<pivot>> \o SubSeq(arr, at, start - 1)
               \o SubSeq(arr, start + 1, Len(arr)),
             start + 1)

InsertionEngineSort(arr) ==
  IF Len(arr) < 2 THEN arr
  ELSE LET desc == SortCompare(arr[2], arr[1]) < 0
           run == RunLength(arr, desc, 3)
           made == IF desc
                   THEN Reverse(SubSeq(arr, 1, run)) \o SubSeq(arr, run + 1, Len(arr))
                   ELSE arr
       IN  BinaryInsertionSort(made, run + 1)

RECURSIVE Merge(_, _)
\* the stable merge: the right element goes first only when it compares less
Merge(l, r) ==
  IF l = <<>> THEN r
  ELSE IF r = <<>> THEN l
  ELSE IF SortCompare(r[1], l[1]) < 0
       THEN <<r[1]>> \o Merge(l, Tail(r))
       ELSE <<l[1]>> \o Merge(Tail(l), r)

RECURSIVE MergeEngineSort(_)
MergeEngineSort(arr) ==
  IF Len(arr) < 2 THEN arr
  ELSE LET h == Len(arr) \div 2
       IN  Merge(MergeEngineSort(SubSeq(arr, 1, h)),
                 MergeEngineSort(SubSeq(arr, h + 1, Len(arr))))

\* the arrays .sort(comparator) may leave
SortOutcomes(arr) == {InsertionEngineSort(arr), MergeEngineSort(arr)}

(***************************************************************************)
(* The chunk store and the two findRelevantChunks.                         *)
(***************************************************************************)
\* chat calls findRelevantChunks(queryEmbedding, 5)
TopK == 5
\* $vectorSearch numCandidates
NumCandidates == 50

\* the embeddings the embedding service is taken to return
Vecs == {<<0, 0>>, <<1, 0>>, <<1, 1>>}

FileA == <<"T", "a", "x", "A", "c", "t", ".", "p", "d", "f">>
FileB == <<"N", "i", "g", "e", "r", "i", "a", "T", "a", "x", "A", "c", "t", ".", "P", "D", "F">>
\* the pdfs folder as readdirSync lists it
Files == <<FileA, FileB>>

\* a DocumentChunk record as processPDF creates it
DocumentChunk(content, embedding, source, chunkIndex) ==
  [content |-> content, embedding |-> embedding,
   source |-> source, chunkIndex |-> chunkIndex]

\* a short chunk text that tells the chunks of the harness stores apart
LabelOf(file, idx) == <<file[1], Digit[idx + 1]>>

\* the records of one document with n chunks embedded as embs
DocRecords(file, n, embs) ==
  [i \in 1..n |-> DocumentChunk(LabelOf(file, i - 1), embs[i], file, i - 1)]

\* the stores an ingestion run leaves: the documents in folder order, each
\* with its chunks 0..n-1 in order
StoresUpTo(maxPerDoc) ==
  UNION {{DocRecords(FileA, a, eA) \o DocRecords(FileB, b, eB) :
            eA \in [1..a -> Vecs], eB \in [1..b -> Vecs]} :
         a \in 0..maxPerDoc, b \in 0..maxPerDoc}

\* slice(0, topK) forgotten: every scored chunk is returned
TakeTopAll(sorted, topK) == sorted

\* Array.prototype.slice(0, topK)
TakeTop(sorted, topK) == Slice(sorted, 0, topK)

\* allChunks.map((chunk) => ({content, source, similarity}))
chunksWithScores(allChunks, queryEmbedding) ==
  [i \in 1..Len(allChunks) |->
     [content |-> allChunks[i].content,
      source |-> allChunks[i].source,
      similarity |-> cosineSimilarity(queryEmbedding, allChunks[i].embedding)]]

\* findRelevantChunks, exhaustive: what it may return for the store st
findRelevantChunksExhaustive(st, queryEmbedding, topK) ==
  {TakeTop(sorted, topK) : sorted \in SortOutcomes(chunksWithScores(st, queryEmbedding))}

\* the store's cosine score of an indexed vector, normalised to [0, 1]
vectorSearchScore(queryVector, embedding) ==
  LET c == cosineSimilarity(queryVector, embedding)
  IN  [c EXCEPT !.off = 1, !.dv = 2]

IsZero(vec) == \A i \in 1..Len(vec) : vec[i] = 0

RECURSIVE Pick(_, _, _)
\* the elements of seq at the positions in idxs, in order
Pick(seq, idxs, i) ==
  IF i > Len(seq) THEN <<>>
  ELSE (IF i \in idxs THEN <<seq[i]>> ELSE <<>>) \o Pick(seq, idxs, i + 1)

\* $vectorSearch followed by $project: the candidates are the stored chunks
\* with a vector the cosine index holds, all of them but the one an approximate
\* search missed (missed = 0: none) and at most numCandidates; they come back
\* ranked by score, limit of them
vectorSearch(st, queryVector, numCandidates, limit, missed) ==
  LET pool == {i \in 1..Len(st) : ~IsZero(st[i].embedding) /\ i # missed}
      cands == Slice(Pick(st, pool, 1), 0, numCandidates)
      scored == [i \in 1..Len(cands) |->
                   [content |-> cands[i].content,
                    source |-> cands[i].source,
                    similarity |-> cosineSimilarity(queryVector, cands[i].embedding),
                    score |-> vectorSearchScore(queryVector, cands[i].embedding)]]
      ranked == MergeEngineSort(scored)
      limited == Slice(ranked, 0, limit)
  IN  [i \in 1..Len(limited) |->
         [content |-> limited[i].content, source |-> limited[i].source,
          score |-> limited[i].score]]

\* `SRC-${i + 1}`
CitationId(n) == <<"S", "R", "C", "-">> \o DecStr(n)

\* findRelevantChunks, indexed: results.map((chunk, i) => ({id, content, source, similarity}))
findRelevantChunksIndexed(st, queryEmbedding, topK, missed) ==
  LET results == vectorSearch(st, queryEmbedding, NumCandidates, topK, missed)
  IN  [i \in 1..Len(results) |->
         [id |-> CitationId(i),
          content |-> results[i].content,
          source |-> results[i].source,
          similarity |-> results[i].score]]

(***************************************************************************)
(* Retriever harness: a store and a query vector are drawn at Init and     *)
(* each findRelevantChunks is applied to them.                             *)
(***************************************************************************)
InitRetrieve ==
  /\ store \in StoresUpTo(MaxStoredPerDoc)
  /\ queryVec \in Vecs
  /\ found = <<>>
  /\ rpc = "input"
  /\ text = <<>> /\ chunkSize = 1 /\ chunks = <<>> /\ cpc = "idle"
  /\ version = "none" /\ req = <<>>
  /\ env = <<>> /\ ing = <<>> /\ hist = <<>>

CallExhaustive ==
  /\ rpc = "input"
  /\ \E result \in findRelevantChunksExhaustive(store, queryVec, TopK) :
       found' = result
  /\ rpc' = "exhaustive"
  /\ UNCHANGED <<store, queryVec, chunkVars, chatVars, ingestVars>>

\* what the store's cosine index does with a zero query vector is not the
\* repository's to say: the indexed search is applied to the other queries
CallIndexed ==
  /\ rpc = "input"
  /\ ~IsZero(queryVec)
  /\ \E missed \in 0..Len(store) :
       found' = findRelevantChunksIndexed(store, queryVec, TopK, missed)
  /\ rpc' = "indexed"
  /\ UNCHANGED <<store, queryVec, chunkVars, chatVars, ingestVars>>

NextRetrieve == CallExhaustive \/ CallIndexed

SpecRetrieve == InitRetrieve /\ [][NextRetrieve]_vars

(***************************************************************************)
(* Chunker harness: the inputs are drawn at Init and the function applied. *)
(***************************************************************************)
TextsUpTo(n) == UNION {[1..k -> Chars] : k \in 0..n}

InitChunk ==
  /\ text \in TextsUpTo(MaxTextLen)
  /\ chunkSize \in 1..MaxChunkSize
  /\ chunks = <<>>
  /\ cpc = "input"
  /\ store = <<>>
  /\ queryVec = <<>> /\ found = <<>> /\ rpc = "idle"
  /\ version = "none" /\ req = <<>>
  /\ env = <<>> /\ ing = <<>> /\ hist = <<>>

CallSplit ==
  /\ cpc = "input"
  /\ chunks' = splitIntoChunks(text, chunkSize)
  /\ cpc' = "done"
  /\ UNCHANGED <<text, chunkSize, store, retrVars, chatVars, ingestVars>>

NextChunk == CallSplit

SpecChunk == InitChunk /\ [][NextChunk]_vars

(***************************************************************************)
(* The chat controller.  The file holds the controller twice: with the     *)
(* exhaustive findRelevantChunks ("exhaustive") and with $vectorSearch     *)
(* ("indexed"); a further copy of the latter ("indexedCopy") differs in    *)
(* how it lists the source names in the prompt.  A request runs from one   *)
(* await to the next in one step.                                          *)
(***************************************************************************)
Versions == {"exhaustive", "indexed", "indexedCopy"}

\* the requests of the chat specification
ChatReqs == {1}

\* req.body.message: absent, or a string
Messages ==
  {[given |-> FALSE, text |-> <<>>],
   [given |-> TRUE, text |-> <<>>],
   [given |-> TRUE, text |-> <<" ", "\n">>],
   [given |-> TRUE, text |-> <<"V", "A", "T", "?">>]}

\* the text of the first candidate of a generateContent response
Answers == {"fallback sentence", "grounded answer"}

\* what the generateContent call may come back with
GeminiOutcomes ==
  {[kind |-> "network error", status |-> 0, answer |-> "", body |-> ""]}
  \cup {[kind |-> "not ok", status |-> st, answer |-> "", body |-> "upstream body"] :
          st \in {429, 500}}
  \cup {[kind |-> "no candidates", status |-> 200, answer |-> "", body |-> ""]}
  \cup {[kind |-> "ok", status |-> 200, answer |-> a, body |-> ""] : a \in Answers}

MessageRequired == "Message is required"
GenericError == "An error occurred while processing your request"

LowerCase(c) ==
  IF c = "P" THEN "p" ELSE IF c = "D" THEN "d" ELSE IF c = "F" THEN "f" ELSE c

\* the regex without its i flag: only a lower-case .pdf is removed
StripPdfCaseSensitive(source) ==
  LET n == Len(source)
  IN  IF n >= 4 /\ SubSeq(source, n - 3, n) = <<".", "p", "d", "f">>
      THEN SubSeq(source, 1, n - 4)
      ELSE source

\* source.replace(/\.pdf$/i, "")
StripPdf(source) ==
  LET n == Len(source)
  IN  IF n >= 4 /\ [i \in 1..4 |-> LowerCase(source[n - 4 + i])] = <<".", "p", "d", "f">>
      THEN SubSeq(source, 1, n - 4)
      ELSE source

\* obj[key] = value on an object, its keys in insertion order
ObjectSet(obj, key, value) ==
  IF \E i \in 1..Len(obj) : obj[i].key = key
  THEN [i \in 1..Len(obj) |-> IF obj[i].key = key THEN [key |-> key, value |-> value]
                                                  ELSE obj[i]]
  ELSE Append(obj, [key |-> key, value |-> value])

\* Object.values(obj)
ObjectValues(obj) == [i \in 1..Len(obj) |-> obj[i].value]

RECURSIVE BuildSourceMap(_, _, _)
\* relevantChunks.forEach((chunk, index) => { sourceMap[`SRC-${index + 1}`] = ... })
BuildSourceMap(relevantChunks, index, sourceMap) ==
  IF index > Len(relevantChunks) THEN sourceMap
  ELSE BuildSourceMap(relevantChunks, index + 1,
         ObjectSet(sourceMap, CitationId(index), StripPdf(relevantChunks[index].source)))

NL == <<"\n">>
Delimiter == <<"\n", "\n", "-", "-", "-", "\n", "\n">>

\* `[Source ${i + 1}: ${chunk.source}]\n${chunk.content}`
ContextBlockExhaustive(chunk, i) ==
  <<"[", "S", "o", "u", "r", "c", "e", " ">> \o DecStr(i) \o <<":", " ">>
    \o chunk.source \o <<"]">> \o NL \o chunk.content

\* `\n[SRC-${index + 1}]\nSource: ${clean}\nContent:\n${chunk.content}\n`
ContextBlockIndexed(chunk, i) ==
  NL \o <<"[">> \o CitationId(i) \o <<"]">> \o NL
    \o <<"S", "o", "u", "r", "c", "e", ":", " ">> \o StripPdf(chunk.source) \o NL
    \o <<"C", "o", "n", "t", "e", "n", "t", ":">> \o NL \o chunk.content \o NL

\* relevantChunks.map(block).join("\n\n---\n\n")
BuildContext(ver, relevantChunks) ==
  Join([i \in 1..Len(relevantChunks) |->
          IF ver = "exhaustive" THEN ContextBlockExhaustive(relevantChunks[i], i)
                                ELSE ContextBlockIndexed(relevantChunks[i], i)],
       Delimiter)

\* Object.values(sourceMap).map((s) => `"${s}"`): each name in double quotes
\* (the copy's .map((s) => "${s}") is a plain string literal: the four
\* characters ${s} for every name)
ListedNames(ver, sourceMap) ==
  LET names == ObjectValues(sourceMap)
  IN  IF ver = "indexedCopy"
      THEN [i \in 1..Len(names) |-> <<"$", "{", "s", "}">>]
      ELSE [i \in 1..Len(names) |-> <<"\"">> \o names[i] \o <<"\"">>]

\* the sentence the prompt's rules tell the model to answer with when the
\* context does not hold the answer
FallbackSentence ==
  "I don't have enough information in the provided documents to answer that question."

\* the parts of the prompt that vary: the context block, the question, and
\* "The source names available are: ..." (absent in the exhaustive version);
\* the fallback sentence is in every version's rules
BuildPrompt(ver, context, message, sourceMap) ==
  [context |-> context,
   question |-> message,
   fallback |-> FallbackSentence,
   hasNames |-> ver # "exhaustive",
   listed |-> IF ver = "exhaustive" THEN <<>> ELSE ListedNames(ver, sourceMap),
   names |-> IF ver = "exhaustive" THEN <<>>
             ELSE Join(ListedNames(ver, sourceMap), <<",", " ">>)]

\* relevantChunks.map((chunk) => ({source, similarity: chunk.similarity.toFixed(4)}))
ResponseSources(ver, relevantChunks) ==
  [i \in 1..Len(relevantChunks) |->
     [source |-> IF ver = "exhaustive" THEN relevantChunks[i].source
                 ELSE StripPdf(relevantChunks[i].source),
      similarity |-> toFixed4(relevantChunks[i].similarity)]]

NoResponse == [status |-> 0, error |-> "", answer |-> "", sources |-> <<>>]

\* res.status(400).json({ error: "Message is required" })
BadRequest == [status |-> 400, error |-> MessageRequired, answer |-> "", sources |-> <<>>]

\* a catch block that answers with the error's own message
CatchResponseLeaking(error) ==
  [status |-> 500, error |-> error, answer |-> "", sources |-> <<>>]

\* the catch block: console.error(error); res.status(500).json({ error: ... })
CatchResponse(error) ==
  [status |-> 500, error |-> GenericError, answer |-> "", sources |-> <<>>]

\* res.json({ answer, sources })
OkResponse(ver, answer, relevantChunks) ==
  [status |-> 200, error |-> "", answer |-> answer,
   sources |-> ResponseSources(ver, relevantChunks)]

NoPrompt ==
  [context |-> <<>>, question |-> <<>>, fallback |-> "", hasNames |-> FALSE,
   listed |-> <<>>, names |-> <<>>]

NewRequest(message) ==
  [pc |-> "received", message |-> message, queryEmbedding |-> <<>>,
   relevantChunks |-> <<>>, topScore |-> "", sourceMap |-> <<>>, context |-> <<>>,
   prompt |-> NoPrompt, response |-> NoResponse, responses |-> 0,
   logged |-> "", embedCalls |-> 0, storeQueries |-> 0, generateCalls |-> 0,
   upstream |-> "none", candidate |-> ""]

\* the log line with relevantChunks[0].similarity.toFixed(4), without the ?.:
\* reading similarity of undefined throws a TypeError
TopSimilarityUnguarded(relevantChunks) ==
  IF Len(relevantChunks) = 0
  THEN [throws |-> TRUE, text |-> "Cannot read properties of undefined"]
  ELSE [throws |-> FALSE, text |-> toFixed4(relevantChunks[1].similarity)]

\* `Top similarity score: ${relevantChunks[0]?.similarity.toFixed(4)}`: the
\* optional chain yields undefined when there is no first chunk
TopSimilarity(relevantChunks) ==
  IF Len(relevantChunks) = 0
  THEN [throws |-> FALSE, text |-> "undefined"]
  ELSE [throws |-> FALSE, text |-> toFixed4(relevantChunks[1].similarity)]

\* the validation without the trim: only !message
MessageMissingUntrimmed(message) == ~message.given \/ Len(message.text) = 0

\* !message || message.trim().length === 0
MessageMissing(message) == ~message.given \/ Len(Trim(message.text)) = 0

\* the catch block for request r
Caught(r, error) ==
  [r EXCEPT !.pc = "done", !.response = CatchResponse(error),
            !.responses = @ + 1, !.logged = error]

\* a chat that starts the store query next to the embedding call instead of
\* awaiting the embedding first
ChatReceiveUnawaited(id) ==
  /\ req[id].pc = "received"
  /\ req' = [req EXCEPT ![id] =
       IF MessageMissing(@.message)
       THEN [@ EXCEPT !.pc = "done", !.response = BadRequest, !.responses = @ + 1]
       ELSE [@ EXCEPT !.pc = "embedding", !.embedCalls = @ + 1, !.storeQueries = @ + 1]]
  /\ UNCHANGED <<store, version, chunkVars, retrVars, ingestVars>>

\* chat, up to the first await: validate, then call the embedding service
ChatReceive(id) ==
  /\ req[id].pc = "received"
  /\ req' = [req EXCEPT ![id] =
       IF MessageMissing(@.message)
       THEN [@ EXCEPT !.pc = "done", !.response = BadRequest, !.responses = @ + 1]
       ELSE [@ EXCEPT !.pc = "embedding", !.embedCalls = @ + 1]]
  /\ UNCHANGED <<store, version, chunkVars, retrVars, ingestVars>>

\* generateQueryEmbedding returns; findRelevantChunks queries the store
EmbedReturns(id) ==
  /\ req[id].pc = "embedding"
  /\ \E vec \in Vecs :
       req' = [req EXCEPT ![id] =
         [@ EXCEPT !.pc = "retrieving", !.queryEmbedding = vec, !.storeQueries = @ + 1]]
  /\ UNCHANGED <<store, version, chunkVars, retrVars, ingestVars>>

\* generateQueryEmbedding throws (network, quota, malformed response)
EmbedThrows(id) ==
  /\ req[id].pc = "embedding"
  /\ req' = [req EXCEPT ![id] = Caught(@, "embedContent failed")]
  /\ UNCHANGED <<store, version, chunkVars, retrVars, ingestVars>>

\* what findRelevantChunks may resolve to for this version
Retrieved(ver, st, queryEmbedding) ==
  IF ver = "exhaustive"
  THEN findRelevantChunksExhaustive(st, queryEmbedding, TopK)
  ELSE {findRelevantChunksIndexed(st, queryEmbedding, TopK, missed) :
          missed \in 0..Len(st)}

\* a handler that keeps the retrieved chunks in a module-level variable, which
\* every request in flight then reads
StoreReturnsShared(id) ==
  /\ req[id].pc = "retrieving"
  /\ version = "exhaustive" \/ ~IsZero(req[id].queryEmbedding)
  /\ \E relevantChunks \in Retrieved(version, store, req[id].queryEmbedding) :
       LET sourceMap == IF version = "exhaustive" THEN <<>>
                        ELSE BuildSourceMap(relevantChunks, 1, <<>>)
           context == BuildContext(version, relevantChunks)
       IN  req' = [j \in DOMAIN req |->
             IF j = id
             THEN [req[j] EXCEPT !.pc = "generating",
                       !.relevantChunks = relevantChunks,
                       !.topScore = TopSimilarity(relevantChunks).text,
                       !.sourceMap = sourceMap,
                       !.context = context,
                       !.prompt = BuildPrompt(version, context, req[id].message.text, sourceMap),
                       !.generateCalls = @ + 1]
             ELSE [req[j] EXCEPT !.relevantChunks = relevantChunks]]
  /\ UNCHANGED <<store, version, chunkVars, retrVars, ingestVars>>

\* findRelevantChunks resolves; the handler logs the top score, builds the
\* source map, the context and the prompt and posts the prompt to
\* generateContent
StoreReturns(id) ==
  /\ req[id].pc = "retrieving"
  /\ version = "exhaustive" \/ ~IsZero(req[id].queryEmbedding)
  /\ \E relevantChunks \in Retrieved(version, store, req[id].queryEmbedding) :
       LET sourceMap == IF version = "exhaustive" THEN <<>>
                        ELSE BuildSourceMap(relevantChunks, 1, <<>>)
           context == BuildContext(version, relevantChunks)
           top == TopSimilarity(relevantChunks)
       IN  req' = [req EXCEPT ![id] =
             IF top.throws
             THEN Caught([@ EXCEPT !.relevantChunks = relevantChunks], top.text)
             ELSE
             [@ EXCEPT !.pc = "generating",
                       !.relevantChunks = relevantChunks,
                       !.topScore = top.text,
                       !.sourceMap = sourceMap,
                       !.context = context,
                       !.prompt = BuildPrompt(version, context, req[id].message.text, sourceMap),
                       !.generateCalls = @ + 1]]
  /\ UNCHANGED <<store, version, chunkVars, retrVars, ingestVars>>

\* the store query rejects (store unreachable, aggregate error)
StoreThrows(id) ==
  /\ req[id].pc = "retrieving"
  /\ req' = [req EXCEPT ![id] = Caught(@, "store query failed")]
  /\ UNCHANGED <<store, version, chunkVars, retrVars, ingestVars>>

\* fetch settles: a network error, a non-2xx answer and a body without
\* candidates all throw into the catch block; otherwise the answer is sent
GeminiReturns(id) ==
  /\ req[id].pc = "generating"
  /\ \E out \in GeminiOutcomes :
       req' = [req EXCEPT ![id] =
         IF out.kind = "network error"
         THEN Caught([@ EXCEPT !.upstream = out.kind], "fetch failed")
         ELSE IF out.kind = "not ok"
              THEN Caught([@ EXCEPT !.upstream = out.kind],
                          "Gemini API error: status - body")
         ELSE IF out.kind = "no candidates"
              THEN Caught([@ EXCEPT !.upstream = out.kind],
                          "Cannot read properties of undefined")
         ELSE [@ EXCEPT !.pc = "done", !.upstream = out.kind,
                        !.candidate = out.answer,
                        !.response = OkResponse(version, out.answer, req[id].relevantChunks),
                        !.responses = @ + 1]]
  /\ UNCHANGED <<store, version, chunkVars, retrVars, ingestVars>>

InitChat ==
  /\ version \in Versions
  /\ store \in StoresUpTo(MaxChatPerDoc)
  /\ req \in [ChatReqs -> {NewRequest(m) : m \in Messages}]
  /\ text = <<>> /\ chunkSize = 1 /\ chunks = <<>> /\ cpc = "idle"
  /\ queryVec = <<>> /\ found = <<>> /\ rpc = "idle"
  /\ env = <<>> /\ ing = <<>> /\ hist = <<>>

NextChat ==
  \E id \in DOMAIN req :
    \/ ChatReceive(id)
    \/ EmbedReturns(id)
    \/ EmbedThrows(id)
    \/ StoreReturns(id)
    \/ StoreThrows(id)
    \/ GeminiReturns(id)

SpecChat == InitChat /\ [][NextChat]_vars

\* two requests in flight at once: express calls chat for each, and the
\* handlers interleave at their awaits
ConcurrentReqs == {1, 2}

\* the stores concurrent requests query: up to MaxConcurrentChunks chunks of
\* one document
ConcurrentStores ==
  UNION {{DocRecords(FileA, n, e) : e \in [1..n -> Vecs]} : n \in 0..MaxConcurrentChunks}

InitChatConcurrent ==
  /\ version \in Versions
  /\ store \in ConcurrentStores
  /\ req \in [ConcurrentReqs -> {NewRequest(m) : m \in Messages}]
  /\ text = <<>> /\ chunkSize = 1 /\ chunks = <<>> /\ cpc = "idle"
  /\ queryVec = <<>> /\ found = <<>> /\ rpc = "idle"
  /\ env = <<>> /\ ing = <<>> /\ hist = <<>>

SpecChatConcurrent == InitChatConcurrent /\ [][NextChat]_vars

(***************************************************************************)
(* The ingestion script.  main runs from one await to the next in one      *)
(* step.  What extraction and embedding do with a given document is fixed  *)
(* in env (the same in every run); every store operation may fail each     *)
(* time it is called.                                                      *)
(***************************************************************************)
\* splitIntoChunks(text, chunkSize = 500)
DefaultChunkSize == 500

Notes == <<"n", "o", "t", "e", "s", ".", "t", "x", "t">>
OldFile == <<"O", "l", "d", ".", "p", "d", "f">>

\* the embedding the service returns for a chunk of an ingested document
EmbeddingOf(file, i) == <<1, 0>>

RECURSIVE ConcatRange(_, _, _)
\* parts[lo] \o parts[lo + 1] \o ... \o parts[hi], halving the range
ConcatRange(parts, lo, hi) ==
  IF lo > hi THEN <<>>
  ELSE IF lo = hi THEN parts[lo]
  ELSE LET mid == (lo + hi) \div 2
       IN  ConcatRange(parts, lo, mid) \o ConcatRange(parts, mid + 1, hi)

\* what pdfExtract.extract yields for a document: it throws, or it gives pages
\* of text items; a document of w words is one page of w one-letter items
\* (w = 0: a scanned document, a page without text)
PagesOf(words) == <<[content |-> [i \in 1..words |-> [str |-> <<"w">>]]]>>

\* extractTextFromPDF: every item's str and a blank, a newline after each
\* page, trimmed; "" when the extractor throws
extractTextFromPDF(outcome) ==
  IF outcome.throws THEN <<>>
  ELSE LET pages == PagesOf(outcome.words)
           PageText(p) ==
             LET items == [i \in 1..Len(pages[p].content) |->
                             IF pages[p].content[i].str # <<>>
                             THEN pages[p].content[i].str \o <<" ">>
                             ELSE <<>>]
             IN  ConcatRange(items, 1, Len(items)) \o <<"\n">>
       IN  Trim(ConcatRange([p \in 1..Len(pages) |-> PageText(p)], 1, Len(pages)))

\* the extraction outcomes of a document: the extractor throws, or the text
\* has no word, or just enough words for 1, 2, ... chunks
ExtractOutcomes ==
  {[throws |-> TRUE, words |-> 0], [throws |-> FALSE, words |-> 0]}
  \cup {[throws |-> FALSE, words |-> (n - 1) * DefaultChunkSize + 1] :
          n \in 1..MaxDocChunks}

ChunkCount(outcome) ==
  IF outcome.throws \/ outcome.words = 0 THEN 0
  ELSE ((outcome.words - 1) \div DefaultChunkSize) + 1

\* file.toLowerCase().endsWith(".pdf")
IsPdf(file) ==
  LET n == Len(file)
  IN  n >= 4 /\ [i \in 1..4 |-> LowerCase(file[n - 4 + i])] = <<".", "p", "d", "f">>

\* fs.readdirSync(pdfFolder).filter(IsPdf)
PdfFiles(dir) == SelectSeq(dir, IsPdf)

\* the folders main may find: none, one without a PDF, one with the two PDFs
Folders ==
  {[exists |-> FALSE, dir |-> <<>>],
   [exists |-> TRUE, dir |-> <<Notes>>],
   [exists |-> TRUE, dir |-> <<FileA, Notes, FileB>>]}

DocNames == {FileA, FileB}

\* the environments: a folder, and for each PDF in it what extraction yields
\* and which of its chunks (1-based, 0: none) the embedding service rejects
Environments ==
  {[folder |-> f, extract |-> x, embedFailsAt |-> e] :
     f \in Folders, x \in [DocNames -> ExtractOutcomes],
     e \in [DocNames -> 0..MaxDocChunks]}

\* an environment says nothing about what is never asked of it
WellFormedEnv(e) ==
  \A d \in DocNames :
    /\ e.embedFailsAt[d] <= ChunkCount(e.extract[d])
    /\ (\A i \in 1..Len(e.folder.dir) : e.folder.dir[i] # d)
         => e.extract[d] = [throws |-> TRUE, words |-> 0]

\* what an earlier ingestion may have left in the store
OldStores ==
  {<<>>, <<DocumentChunk(<<"o", "l", "d">>, <<1, 0>>, OldFile, 0)>>}

IdleRun ==
  [pc |-> "idle", run |-> "first", files |-> <<>>, fileIdx |-> 0,
   chunks |-> <<>>, i |-> 0, embedding |-> <<>>, ended |-> "no",
   docs |-> <<>>, embedCalls |-> 0]

NoHistory ==
  [afterFirst |-> <<>>, faults |-> [first |-> {}, second |-> {}],
   docsFirst |-> <<>>, endedFirst |-> "no"]

Fault(op, file, i) == [op |-> op, file |-> file, i |-> i]

\* a store operation of this run failed
WithFault(h, run, fault) == [h EXCEPT !.faults[run] = @ \cup {fault}]

\* main is over: "completed" (past the loop), "exited" (process.exit(0)) or
\* "fatal" (the catch block); finally closes the connection
Ended(g, how) == [g EXCEPT !.pc = "ended", !.ended = how]

\* a main whose loop stops at the first document that failed
AfterDocumentFatal(g, state) ==
  LET done == [g EXCEPT !.docs = Append(@, [file |-> g.files[g.fileIdx], state |-> state]),
                        !.chunks = <<>>, !.i = 0, !.embedding = <<>>]
  IN  IF state = "failed" THEN [done EXCEPT !.pc = "ended", !.ended = "fatal"]
      ELSE IF g.fileIdx < Len(g.files)
      THEN [done EXCEPT !.pc = "extracting", !.fileIdx = @ + 1]
      ELSE [done EXCEPT !.pc = "counting"]

\* processPDF returned for document fileIdx with the given state; main's loop
\* goes on to the next file, or to countDocuments after the last
AfterDocument(g, state) ==
  LET done == [g EXCEPT !.docs = Append(@, [file |-> g.files[g.fileIdx], state |-> state]),
                        !.chunks = <<>>, !.i = 0, !.embedding = <<>>]
  IN  IF g.fileIdx < Len(g.files)
      THEN [done EXCEPT !.pc = "extracting", !.fileIdx = @ + 1]
      ELSE [done EXCEPT !.pc = "counting"]

\* a deleteMany that leaves the collection as it is
NotCleared(collection) == collection

\* DocumentChunk.deleteMany({})
DeleteMany(collection) == <<>>

\* main() is started: mongoose.connect
MainStart ==
  /\ ing.pc = "idle"
  /\ ing' = [ing EXCEPT !.pc = "connecting"]
  /\ UNCHANGED <<store, env, hist, chunkVars, retrVars, chatVars>>

\* connected: DocumentChunk.deleteMany({})
ConnectReturns ==
  /\ ing.pc = "connecting"
  /\ ing' = [ing EXCEPT !.pc = "clearing"]
  /\ UNCHANGED <<store, env, hist, chunkVars, retrVars, chatVars>>

ConnectThrows ==
  /\ ing.pc = "connecting"
  /\ ing' = Ended(ing, "fatal")
  /\ hist' = WithFault(hist, ing.run, Fault("connect", <<>>, 0))
  /\ UNCHANGED <<store, env, chunkVars, retrVars, chatVars>>

\* a main that looks for the folder and the PDFs first and clears the store
\* only when there is a document to process
DeleteReturnsAfterLook ==
  /\ ing.pc = "clearing"
  /\ IF ~env.folder.exists
     THEN /\ env' = [env EXCEPT !.folder = [exists |-> TRUE, dir |-> <<>>]]
          /\ ing' = Ended(ing, "exited")
          /\ store' = store
     ELSE /\ UNCHANGED env
          /\ LET files == PdfFiles(env.folder.dir)
             IN  IF Len(files) = 0
                 THEN ing' = Ended(ing, "exited") /\ store' = store
                 ELSE /\ ing' = [ing EXCEPT !.pc = "extracting", !.files = files,
                                            !.fileIdx = 1]
                      /\ store' = DeleteMany(store)
  /\ UNCHANGED <<hist, chunkVars, retrVars, chatVars>>

\* the store is cleared; main looks for the folder and the PDFs in it and
\* calls processPDF on the first, which starts the extraction
DeleteReturns ==
  /\ ing.pc = "clearing"
  /\ store' = DeleteMany(store)
  /\ IF ~env.folder.exists
     THEN \* fs.mkdirSync(pdfFolder); process.exit(0)
          /\ env' = [env EXCEPT !.folder = [exists |-> TRUE, dir |-> <<>>]]
          /\ ing' = Ended(ing, "exited")
     ELSE /\ UNCHANGED env
          /\ LET files == PdfFiles(env.folder.dir)
             IN  IF Len(files) = 0
                 THEN ing' = Ended(ing, "exited")
                 ELSE ing' = [ing EXCEPT !.pc = "extracting", !.files = files,
                                         !.fileIdx = 1]
  /\ UNCHANGED <<hist, chunkVars, retrVars, chatVars>>

DeleteThrows ==
  /\ ing.pc = "clearing"
  /\ ing' = Ended(ing, "fatal")
  /\ hist' = WithFault(hist, ing.run, Fault("deleteMany", <<>>, 0))
  /\ UNCHANGED <<store, env, chunkVars, retrVars, chatVars>>

\* a processPDF without the two early returns: an empty text goes on to the
\* chunk loop, which has nothing to do, and the document counts as completed
ExtractSettlesUnchecked ==
  /\ ing.pc = "extracting"
  /\ LET file == ing.files[ing.fileIdx]
         extracted == extractTextFromPDF(env.extract[file])
         docChunks == splitIntoChunks(extracted, DefaultChunkSize)
     IN  ing' = IF Len(docChunks) = 0 THEN AfterDocument(ing, "stored")
                ELSE [ing EXCEPT !.pc = "embedding", !.chunks = docChunks, !.i = 0,
                                 !.embedCalls = @ + 1]
  /\ UNCHANGED <<store, env, hist, chunkVars, retrVars, chatVars>>

\* processPDF: the extraction settles; no text or no chunk ends the document,
\* else the first chunk goes to the embedding service
ExtractSettles ==
  /\ ing.pc = "extracting"
  /\ LET file == ing.files[ing.fileIdx]
         extracted == extractTextFromPDF(env.extract[file])
         docChunks == splitIntoChunks(extracted, DefaultChunkSize)
     IN  ing' = IF Len(extracted) = 0 THEN AfterDocument(ing, "skipped")
                ELSE IF Len(docChunks) = 0 THEN AfterDocument(ing, "skipped")
                ELSE [ing EXCEPT !.pc = "embedding", !.chunks = docChunks, !.i = 0,
                                 !.embedCalls = @ + 1]
  /\ UNCHANGED <<store, env, hist, chunkVars, retrVars, chatVars>>

\* generateEmbedding resolves: DocumentChunk.create
EmbedResolves ==
  /\ ing.pc = "embedding"
  /\ env.embedFailsAt[ing.files[ing.fileIdx]] # ing.i + 1
  /\ ing' = [ing EXCEPT !.pc = "creating",
                        !.embedding = EmbeddingOf(ing.files[ing.fileIdx], ing.i)]
  /\ UNCHANGED <<store, env, hist, chunkVars, retrVars, chatVars>>

\* generateEmbedding rethrows; processPDF's catch logs it and returns
EmbedRejects ==
  /\ ing.pc = "embedding"
  /\ env.embedFailsAt[ing.files[ing.fileIdx]] = ing.i + 1
  /\ ing' = AfterDocument(ing, "failed")
  /\ UNCHANGED <<store, env, hist, chunkVars, retrVars, chatVars>>

\* the record is inserted; after the pacing delay the loop takes the next
\* chunk, or processPDF returns
CreateReturns ==
  /\ ing.pc = "creating"
  /\ store' = Append(store, DocumentChunk(ing.chunks[ing.i + 1], ing.embedding,
                                          ing.files[ing.fileIdx], ing.i))
  /\ ing' = IF ing.i + 1 < Len(ing.chunks)
            THEN [ing EXCEPT !.pc = "embedding", !.i = @ + 1, !.embedCalls = @ + 1]
            ELSE AfterDocument(ing, "stored")
  /\ UNCHANGED <<env, hist, chunkVars, retrVars, chatVars>>

\* the insert rejects; processPDF's catch logs it and returns
CreateThrows ==
  /\ ing.pc = "creating"
  /\ ing' = AfterDocument(ing, "failed")
  /\ hist' = WithFault(hist, ing.run, Fault("create", ing.files[ing.fileIdx], ing.i))
  /\ UNCHANGED <<store, env, chunkVars, retrVars, chatVars>>

\* countDocuments resolves: the summary is logged
CountReturns ==
  /\ ing.pc = "counting"
  /\ ing' = Ended(ing, "completed")
  /\ UNCHANGED <<store, env, hist, chunkVars, retrVars, chatVars>>

CountThrows ==
  /\ ing.pc = "counting"
  /\ ing' = Ended(ing, "fatal")
  /\ hist' = WithFault(hist, ing.run, Fault("countDocuments", <<>>, 0))
  /\ UNCHANGED <<store, env, chunkVars, retrVars, chatVars>>

\* the script is run a second time
RunAgain ==
  /\ ing.pc = "ended"
  /\ ing.run = "first"
  /\ hist' = [hist EXCEPT !.afterFirst = store, !.docsFirst = ing.docs,
                          !.endedFirst = ing.ended]
  /\ ing' = [IdleRun EXCEPT !.pc = "connecting", !.run = "second"]
  /\ UNCHANGED <<store, env, chunkVars, retrVars, chatVars>>

InitIngest ==
  /\ env \in {e \in Environments : WellFormedEnv(e)}
  /\ store \in OldStores
  /\ ing = IdleRun
  /\ hist = NoHistory
  /\ text = <<>> /\ chunkSize = 1 /\ chunks = <<>> /\ cpc = "idle"
  /\ queryVec = <<>> /\ found = <<>> /\ rpc = "idle"
  /\ version = "none" /\ req = <<>>

NextIngest ==
  \/ MainStart
  \/ ConnectReturns
  \/ ConnectThrows
  \/ DeleteReturns
  \/ DeleteThrows
  \/ ExtractSettles
  \/ EmbedResolves
  \/ EmbedRejects
  \/ CreateReturns
  \/ CreateThrows
  \/ CountReturns
  \/ CountThrows
  \/ RunAgain

SpecIngest == InitIngest /\ [][NextIngest]_vars

\* the script has been run twice and nothing is left to do
Finished == ing.pc = "ended" /\ ing.run = "second"

\* the script takes a step (every action of NextIngest changes ing)
Progress == ing' # ing

\* every promise main or processPDF awaits settles (it resolves or rejects),
\* and the pacing timer fires: until the script has finished, steps keep
\* being taken (weak fairness of NextIngest, which is enabled in every state
\* but the finished ones)
SpecIngestLive == SpecIngest /\ ([]<>Finished \/ []<><<Progress>>_vars)

(***************************************************************************)
(* Claims about the chunker (checked under SpecChunk).                     *)
(***************************************************************************)
RECURSIVE Collapse(_)
\* every maximal run of white space replaced by one blank
Collapse(s) ==
  IF s = <<>> THEN <<>>
  ELSE IF IsSpace(s[1]) THEN <<" ">> \o Collapse(TrimStart(s))
  ELSE <<s[1]>> \o Collapse(Tail(s))

\* the white-space-normalised form of a text
Normalized(s) == Trim(Collapse(s))

\* the number of words of a string: the positions where a word starts
WordCount(s) ==
  Cardinality({i \in 1..Len(s) : ~IsSpace(s[i]) /\ (i = 1 \/ IsSpace(s[i - 1]))})

\* C1: for every text and chunk size >= 1, splitIntoChunks returns non-empty
\* chunks of at most chunkSize words each, the chunks joined by single blanks
\* are the white-space-normalised text, and a text of white space only
\* (or the empty text) gives no chunk.
C1_ChunksPartitionText ==
  cpc = "done" =>
    /\ \A i \in 1..Len(chunks) :
         /\ chunks[i] # <<>>
         /\ WordCount(chunks[i]) >= 1
         /\ WordCount(chunks[i]) <= chunkSize
    /\ Join(chunks, <<" ">>) = Normalized(text)
    /\ (\A i \in 1..Len(text) : IsSpace(text[i])) => chunks = <<>>

C1_Witness ==
  /\ cpc = "done"
  /\ Len(chunks) = 2
  /\ chunkSize = 2
  /\ WordCount(text) = 3
  /\ IsSpace(text[1])

(***************************************************************************)
(* Claims about retrieval (checked under SpecRetrieve).                    *)
(***************************************************************************)
\* the position in the store of the chunk a result element was made from
\* (the harness stores hold no two chunks with the same source and content)
StoreIndexOf(e) ==
  CHOOSE i \in 1..Len(store) :
    store[i].content = e.content /\ store[i].source = e.source

IsStored(e) ==
  \E i \in 1..Len(store) :
    store[i].content = e.content /\ store[i].source = e.source

\* C2: findRelevantChunks returns at most K elements and at most as many as
\* the store holds, each one a stored chunk (none twice); on an empty store it
\* returns the empty sequence.
C2_AtMostKStoredChunks ==
  rpc \in {"exhaustive", "indexed"} =>
    /\ Len(found) <= TopK
    /\ Len(found) <= Len(store)
    /\ \A j \in 1..Len(found) : IsStored(found[j])
    /\ \A j, k \in 1..Len(found) :
         j # k => StoreIndexOf(found[j]) # StoreIndexOf(found[k])
    /\ store = <<>> => found = <<>>

C2_Witness ==
  /\ rpc \in {"exhaustive", "indexed"}
  /\ Len(store) > TopK
  /\ Len(found) = TopK

\* the cosine similarity of stored chunk i to the query
SimOf(i) == cosineSimilarity(queryVec, store[i].embedding)

\* x is strictly higher than y (false when either is NaN, as in IEEE)
Higher(x, y) == LET d == Subtract(x, y) IN ~d.nan /\ d.sign = 1

Same(x, y) == LET d == Subtract(x, y) IN ~d.nan /\ d.sign = 0

\* C3: the exhaustive strategy returns the first K of the stored chunks in
\* order of non-increasing similarity, chunks of equal similarity in store
\* order, and leaves out no chunk of strictly higher similarity than one it
\* returns.
C3_ExhaustiveRanking ==
  rpc = "exhaustive" =>
    /\ Len(found) = (IF Len(store) < TopK THEN Len(store) ELSE TopK)
    /\ \A j, k \in 1..Len(found) :
         j < k =>
           /\ ~Higher(found[k].similarity, found[j].similarity)
           /\ Same(found[j].similarity, found[k].similarity)
                => StoreIndexOf(found[j]) < StoreIndexOf(found[k])
    /\ \A i \in 1..Len(store) :
         (\A j \in 1..Len(found) : StoreIndexOf(found[j]) # i)
           => \A j \in 1..Len(found) : ~Higher(SimOf(i), found[j].similarity)

\* C4: a zero-magnitude query or chunk vector gives that chunk the lowest rank
\* instead of NaN: no returned similarity is NaN, and a chunk with a
\* zero-magnitude vector is ranked after every chunk with a defined similarity.
C4_ZeroVectorRanksLast ==
  rpc = "exhaustive" =>
    /\ \A j \in 1..Len(found) : ~found[j].similarity.nan
    /\ \A j, k \in 1..Len(found) :
         (IsZero(store[StoreIndexOf(found[j])].embedding)
            /\ ~IsZero(store[StoreIndexOf(found[k])].embedding)
            /\ ~IsZero(queryVec))
           => k < j

(***************************************************************************)
(* Claims about the chat controller (checked under SpecChat).              *)
(***************************************************************************)
\* a file name without its last extension
BaseName(name) ==
  LET dots == {i \in 1..Len(name) : name[i] = "."}
  IN  IF dots = {} THEN name
      ELSE SubSeq(name, 1, (CHOOSE i \in dots : \A j \in dots : j <= i) - 1)

\* the numbers n of the "[SRC-n]" headers of a context block, in order of
\* appearance (the model's citations have one digit)
CitationsIn(context) ==
  LET at == {i \in 1..Len(context) - 6 :
               SubSeq(context, i, i + 4) = <<"[", "S", "R", "C", "-">>
               /\ context[i + 6] = "]"}
      Nth(j) == CHOOSE i \in at : Cardinality({k \in at : k < i}) = j - 1
  IN  [j \in 1..Cardinality(at) |-> context[Nth(j) + 5]]

\* the request has got its retrieval result and built context and prompt
Assembled(r) == r.pc = "generating" \/ (r.pc = "done" /\ r.upstream # "none")

\* C5: with n retrieved chunks the citation identifiers are SRC-1..SRC-n in
\* rank order, and the source map has exactly n entries, SRC-i mapping to the
\* i-th chunk's source without its extension, whatever the extension's case.
C5_SourceMapInRankOrder ==
  \A id \in DOMAIN req :
    (version # "exhaustive" /\ Assembled(req[id])) =>
      LET r == req[id]
          n == Len(r.relevantChunks)
      IN  /\ Len(r.sourceMap) = n
          /\ \A i \in 1..n :
               /\ r.relevantChunks[i].id = CitationId(i)
               /\ r.sourceMap[i].key = CitationId(i)
               /\ r.sourceMap[i].value = BaseName(r.relevantChunks[i].source)
          /\ CitationsIn(r.context) = [i \in 1..n |-> Digit[i + 1]]

C5_Witness ==
  \E id \in DOMAIN req :
    /\ version = "indexed"
    /\ req[id].pc = "generating"
    /\ Len(req[id].relevantChunks) = 3
    /\ req[id].relevantChunks[1].source = FileB
    /\ req[id].sourceMap[1].value = SubSeq(FileB, 1, Len(FileB) - 4)
    /\ req[id].relevantChunks[3].source = FileA

\* a listed name without the double quotes around it
Unquoted(s) ==
  IF Len(s) >= 2 /\ s[1] = "\"" /\ s[Len(s)] = "\"" THEN SubSeq(s, 2, Len(s) - 1) ELSE s

Range(seq) == {seq[i] : i \in 1..Len(seq)}

\* C6: the source names the prompt lists are exactly the distinct values of
\* the source map, each listed once.
C6_PromptListsDistinctNames ==
  \A id \in DOMAIN req :
    (version # "exhaustive" /\ Assembled(req[id])) =>
      LET listed == [i \in 1..Len(req[id].prompt.listed) |->
                       Unquoted(req[id].prompt.listed[i])]
      IN  /\ Range(listed) = Range(ObjectValues(req[id].sourceMap))
          /\ \A i, j \in 1..Len(listed) : i # j => listed[i] # listed[j]

IsDigit(c) == \E d \in 1..10 : Digit[d] = c

\* digits, a point, four digits
FourDecimals(s) ==
  /\ Len(s) >= 6
  /\ s[Len(s) - 4] = "."
  /\ \A i \in 1..Len(s) : i # Len(s) - 4 => (IsDigit(s[i]) \/ (i = 1 /\ s[i] = "-"))

\* C7: a success response has one sources entry per retrieved chunk, in rank
\* order, with the source name without its extension and the similarity with
\* four decimals; the single chunk TaxAct.pdf embedded as [1,0], queried with
\* [1,0], gives [{source: "TaxAct", similarity: "1.0000"}].
C7_ResponseSources ==
  \A id \in DOMAIN req :
    (req[id].pc = "done" /\ req[id].response.status = 200) =>
      LET r == req[id]
          out == r.response.sources
      IN  /\ Len(out) = Len(r.relevantChunks)
          /\ \A i \in 1..Len(out) :
               /\ out[i].source = BaseName(r.relevantChunks[i].source)
               /\ FourDecimals(out[i].similarity)
          /\ (Len(store) = 1 /\ store[1].source = FileA
                /\ store[1].embedding = <<1, 0>> /\ r.queryEmbedding = <<1, 0>>
                /\ Len(out) = 1)
               => out = <<[source |-> <<"T", "a", "x", "A", "c", "t">>,
                           similarity |-> <<"1", ".", "0", "0", "0", "0">>]>>

\* C8: for a request with a message, a failure of the embedding call, of the
\* store query or of the generation (network error, non-2xx, no candidates)
\* ends the request at once: no later stage is called, and the one response is
\* status 500 with exactly the generic error and nothing of the cause.
C8_FailureGivesGenericError ==
  \A id \in DOMAIN req :
    LET r == req[id]
        failed == r.logged # "" \/ r.upstream \in {"network error", "not ok", "no candidates"}
    IN  /\ failed =>
             /\ r.pc = "done"
             /\ r.responses = 1
             /\ r.response = [status |-> 500, error |-> GenericError,
                              answer |-> "", sources |-> <<>>]
        /\ r.logged = "embedContent failed" => r.storeQueries = 0 /\ r.generateCalls = 0
        /\ r.logged = "store query failed" => r.generateCalls = 0
        /\ (r.pc = "done" /\ ~MessageMissing(r.message) /\ ~failed) =>
             r.response.status = 200 /\ r.upstream = "ok"

C8_Witness ==
  \E id \in DOMAIN req :
    /\ req[id].pc = "done"
    /\ req[id].upstream = "not ok"
    /\ req[id].generateCalls = 1
    /\ req[id].response.status = 500
    /\ req[id].response.error = GenericError

(***************************************************************************)
(* Claims about the ingestion script (checked under SpecIngest).           *)
(***************************************************************************)
\* the chunks of a document that are in the store
StoredOf(file) == {j \in 1..Len(store) : store[j].source = file}

\* processPDF gave the document up because an embedding call failed (and not
\* because an insert did)
AbandonedOnEmbedding(k) ==
  /\ ing.docs[k].state = "failed"
  /\ env.embedFailsAt[ing.docs[k].file] > 0
  /\ \A f \in hist.faults[ing.run] : ~(f.op = "create" /\ f.file = ing.docs[k].file)

\* C9: when the embedding of chunk i of a document fails, the document is
\* abandoned and the store holds no chunk of it (the chunks 0..i-1 embedded
\* before are not left behind).
C9_NoPartialDocument ==
  \A k \in 1..Len(ing.docs) :
    AbandonedOnEmbedding(k) => StoredOf(ing.docs[k].file) = {}

\* the (source, chunkIndex, content) records of a store
Records(st) ==
  [j \in 1..Len(st) |->
     [source |-> st[j].source, chunkIndex |-> st[j].chunkIndex,
      content |-> st[j].content]]

\* C10: two runs of main in sequence on the same documents, with the same
\* extraction and embedding outcomes, leave the records the first run left.
\* (Stated for two runs that both got past the loop.)
C10_SecondRunSameRecords ==
  (ing.run = "second" /\ ing.pc = "ended" /\ ing.ended = "completed"
     /\ hist.endedFirst = "completed")
    => Records(store) = Records(hist.afterFirst)

\* C10 as amended: ... and with the same outcome of every store operation in
\* both runs, whatever way the runs end.
C10_SameOutcomesSameRecords ==
  (ing.run = "second" /\ ing.pc = "ended"
     /\ hist.faults["first"] = hist.faults["second"])
    => Records(store) = Records(hist.afterFirst)

C10_Witness ==
  /\ ing.run = "second"
  /\ ing.pc = "ended"
  /\ ing.ended = "completed"
  /\ hist.faults["first"] = {} /\ hist.faults["second"] = {}
  /\ Len(store) >= 3
  /\ Records(store) = Records(hist.afterFirst)

\* processPDF is at work on a document
Processing == ing.pc \in {"extracting", "embedding", "creating"}

\* main's catch block ran only for a failed store call of main itself
FatalOnlyByMain ==
  (ing.pc = "ended" /\ ing.ended = "fatal") =>
    \E f \in hist.faults[ing.run] : f.op \in {"connect", "deleteMany", "countDocuments"}

\* the documents are taken in the folder's order, one at a time, and all of
\* them have been taken when the loop is left
AllDocumentsInOrder ==
  /\ Len(ing.docs) <= Len(ing.files)
  /\ \A k \in 1..Len(ing.docs) : ing.docs[k].file = ing.files[k]
  /\ Processing => ing.fileIdx = Len(ing.docs) + 1
  /\ (ing.pc \in {"counting", "ended"} /\ Len(ing.files) > 0)
       => Len(ing.docs) = Len(ing.files)

\* C11: once the store is connected and cleared, a failed extraction, a failed
\* embedding or a failed insert for one document never stops the run: every
\* later document is still processed, in order and one at a time, and the run
\* reaches its end.
C11_FailuresNonFatal ==
  /\ [](AllDocumentsInOrder /\ FatalOnlyByMain)
  /\ (Processing ~> ing.pc = "ended")

C11_Witness ==
  /\ ing.pc = "ended"
  /\ ing.ended = "completed"
  /\ Len(ing.docs) = 2
  /\ ing.docs[1].state = "failed"
  /\ ing.docs[2].state = "stored"
  /\ \E f \in hist.faults[ing.run] : f.op = "create" /\ f.file = ing.docs[1].file

\* the store query of the request resolved with no chunk
RetrievedNothing(r) ==
  /\ r.storeQueries = 1
  /\ r.pc \in {"generating", "done"}
  /\ r.logged # "store query failed"
  /\ r.relevantChunks = <<>>

\* C12: when retrieval returns no chunk the query does not fail: the context
\* is the empty string, the prompt is built with the question and the
\* fallback sentence, the generative service is called once, and a success
\* response carries the model's answer and an empty sources list.
C12_EmptyRetrievalStillGenerates ==
  \A id \in DOMAIN req :
    LET r == req[id]
    IN  RetrievedNothing(r) =>
          /\ r.logged \in {"", "fetch failed", "Gemini API error: status - body",
                           "Cannot read properties of undefined"}
          /\ r.logged # "" => r.upstream \in {"network error", "not ok", "no candidates"}
          /\ r.generateCalls = 1
          /\ r.context = <<>>
          /\ r.prompt.context = <<>>
          /\ r.prompt.question = r.message.text
          /\ r.prompt.fallback = FallbackSentence
          /\ (r.pc = "done" /\ r.upstream = "ok") =>
               /\ r.response.status = 200
               /\ r.response.answer = r.candidate
               /\ r.candidate \in Answers
               /\ r.response.sources = <<>>

C12_Witness ==
  \E id \in DOMAIN req :
    /\ version = "indexed"
    /\ store = <<>>
    /\ RetrievedNothing(req[id])
    /\ req[id].pc = "done"
    /\ req[id].generateCalls = 1
    /\ req[id].response.status = 200
    /\ req[id].response.answer = "fallback sentence"
    /\ req[id].response.sources = <<>>

\* how far a request has got in chat
StageRank(pc) ==
  CASE pc = "received" -> 0
    [] pc = "embedding" -> 1
    [] pc = "retrieving" -> 2
    [] pc = "generating" -> 3
    [] pc = "done" -> 4

\* what has been called so far fits the stage, and every stage has its
\* predecessor's output
StagesHaveTheirInputs(r) ==
  /\ r.embedCalls <= 1 /\ r.storeQueries <= 1 /\ r.generateCalls <= 1
  /\ r.responses <= 1
  /\ (r.embedCalls = 1) = (~MessageMissing(r.message) /\ r.pc # "received")
  /\ r.pc = "embedding" => r.storeQueries = 0
  /\ r.pc \in {"embedding", "retrieving"} => r.generateCalls = 0
  /\ r.pc # "done" => r.responses = 0
  /\ r.storeQueries = 1 => r.embedCalls = 1 /\ r.queryEmbedding \in Vecs
  /\ r.generateCalls = 1 =>
       /\ r.storeQueries = 1
       /\ r.pc \in {"generating", "done"}
       /\ r.context = BuildContext(version, r.relevantChunks)
       /\ r.prompt.context = r.context
       /\ r.prompt.question = r.message.text
  /\ r.response.status = 200 => r.generateCalls = 1 /\ r.upstream = "ok"

\* a step never takes a request back to an earlier stage nor undoes a call
NoStageRepeated ==
  \A id \in DOMAIN req :
    /\ StageRank(req'[id].pc) >= StageRank(req[id].pc)
    /\ req'[id].embedCalls >= req[id].embedCalls
    /\ req'[id].storeQueries >= req[id].storeQueries
    /\ req'[id].generateCalls >= req[id].generateCalls

\* C13: within a query the stages run in the order embed, retrieve, assemble
\* the context, build the prompt, generate, respond, each after its
\* predecessor has completed; the embedding service is called exactly once
\* for a query that passes validation, the store is queried at most once and
\* the generative service is requested at most once (no retry).
C13_StagesInOrder ==
  /\ [](\A id \in DOMAIN req : StagesHaveTheirInputs(req[id]))
  /\ [][NoStageRepeated]_vars

C13_Witness ==
  \E id \in DOMAIN req :
    /\ req[id].pc = "done"
    /\ req[id].response.status = 200
    /\ req[id].embedCalls = 1
    /\ req[id].storeQueries = 1
    /\ req[id].generateCalls = 1
    /\ Len(req[id].relevantChunks) >= 2

(***************************************************************************)
(* Claims about concurrent requests (checked under SpecChatConcurrent).    *)
(***************************************************************************)
\* the response chat gives a request run on its own, from the store and what
\* the services answered to that request
LoneResponse(r) ==
  IF MessageMissing(r.message) THEN BadRequest
  ELSE IF r.logged # "" THEN CatchResponse(r.logged)
  ELSE OkResponse(version, r.candidate, r.relevantChunks)

\* what the request holds comes from its own message and embedding and from
\* the store
OwnRetrieval(r) ==
  IF r.pc \in {"generating", "done"} /\ r.storeQueries = 1 /\ r.logged # "store query failed"
  THEN /\ r.relevantChunks \in Retrieved(version, store, r.queryEmbedding)
       /\ r.context = BuildContext(version, r.relevantChunks)
       /\ r.prompt.question = r.message.text
  ELSE r.relevantChunks = <<>>

\* a step is a step of one request, and it writes nothing to the store
OneRequestSteps ==
  /\ store' = store
  /\ \E id \in DOMAIN req : \A j \in DOMAIN req \ {id} : req'[j] = req[j]

\* C14: the query path never inserts, updates or deletes a chunk, and
\* requests in flight at the same time share no state: whatever the
\* interleaving, each request is answered as it would be on its own.
C14_ConcurrentQueriesIndependent ==
  /\ [][OneRequestSteps]_vars
  /\ [](\A id \in DOMAIN req :
          /\ OwnRetrieval(req[id])
          /\ req[id].pc = "done" => req[id].response = LoneResponse(req[id]))

\* both requests were in flight together, with different query embeddings,
\* and both have been answered from the store
C14_Witness ==
  /\ DOMAIN req = ConcurrentReqs
  /\ Len(store) = 2
  /\ \A id \in DOMAIN req : req[id].pc = "done" /\ req[id].response.status = 200
  /\ req[1].queryEmbedding # req[2].queryEmbedding
  /\ req[1].response.sources # req[2].response.sources

(***************************************************************************)
(* More claims about the ingestion script (checked under SpecIngest).      *)
(***************************************************************************)
\* the extraction of the document yields no character: the extractor throws,
\* or the pages hold no text item, and the text returned is empty
NoCharacters(file) ==
  /\ env.extract[file].throws \/ env.extract[file].words = 0
  /\ Len(extractTextFromPDF(env.extract[file])) = 0

\* the step processPDF takes on a document without characters: it returns to
\* main's loop with the document skipped, nothing embedded, nothing stored
SkipsEmptyDocument ==
  (ing.pc = "extracting" /\ NoCharacters(ing.files[ing.fileIdx])) =>
    /\ store' = store
    /\ ing'.embedCalls = ing.embedCalls
    /\ ing'.docs = Append(ing.docs, [file |-> ing.files[ing.fileIdx], state |-> "skipped"])
    /\ ing'.pc \in {"extracting", "counting"}
    /\ hist' = hist

\* C15: a document whose extraction yields zero characters (the extractor
\* throwing included) ends skipped: no embedding call, no chunk record of it,
\* no error to the batch, and the store as it was before the document.
C15_EmptyExtractionSkipped ==
  /\ [][SkipsEmptyDocument]_vars
  /\ [](\A k \in 1..Len(ing.docs) :
          NoCharacters(ing.docs[k].file) =>
            ing.docs[k].state = "skipped" /\ StoredOf(ing.docs[k].file) = {})

C15_Witness ==
  /\ ing.pc = "ended"
  /\ ing.ended = "completed"
  /\ Len(ing.docs) = 2
  /\ env.extract[ing.docs[1].file].throws
  /\ ing.docs[1].state = "skipped"
  /\ ing.docs[2].state = "stored"
  /\ Len(store) = MaxDocChunks
  /\ ing.embedCalls = MaxDocChunks

(***************************************************************************)
(* More claims about the chat controller (checked under SpecChat).         *)
(***************************************************************************)
\* the message is absent, empty or made of white space only
Blank(message) ==
  \/ ~message.given
  \/ \A i \in 1..Len(message.text) : message.text[i] \in {" ", "\n", "\t", "\r"}

\* C16: a request whose message is missing, empty or only white space is
\* answered 400 {error: "Message is required"} without any embedding call,
\* store query or generation request; a request has no response while chat
\* runs and exactly one when it has returned.
C16_BlankMessageRejected ==
  \A id \in DOMAIN req :
    LET r == req[id]
    IN  /\ Blank(r.message) =>
             /\ r.embedCalls = 0 /\ r.storeQueries = 0 /\ r.generateCalls = 0
             /\ r.pc \in {"received", "done"}
             /\ r.pc = "done" =>
                  /\ r.response.status = 400
                  /\ r.response.error = "Message is required"
                  /\ r.response.answer = "" /\ r.response.sources = <<>>
        /\ r.responses = (IF r.pc = "done" THEN 1 ELSE 0)
        /\ (r.response = NoResponse) = (r.pc # "done")

C16_Witness ==
  \E id \in DOMAIN req :
    /\ req[id].message.given
    /\ Len(req[id].message.text) = 2
    /\ Blank(req[id].message)
    /\ req[id].pc = "done"
    /\ req[id].response.status = 400
    /\ req[id].responses = 1

\* the run has got past deleteMany
PastClear ==
  \/ ing.pc \in {"extracting", "embedding", "creating", "counting"}
  \/ /\ ing.pc = "ended"
     /\ \A f \in hist.faults[ing.run] : f.op \notin {"connect", "deleteMany"}

\* the chunkIndex values stored for a source
IndexesOf(file) == {store[j].chunkIndex : j \in StoredOf(file)}

\* C17: the run clears the store before it looks for documents: a run that
\* finds no pdfs folder or no PDF in it ends with an empty store, and after a
\* run that got past the clear the store holds only chunks of that run's
\* files, each source with the chunkIndex values 0, 1, 2, ... once each.
C17_ClearedBeforeLooking ==
  PastClear =>
    /\ PdfFiles(env.folder.dir) = <<>> =>
         ing.pc = "ended" /\ ing.ended = "exited" /\ store = <<>>
    /\ \A j \in 1..Len(store) :
         /\ \E k \in 1..Len(ing.files) : ing.files[k] = store[j].source
         /\ IndexesOf(store[j].source) = 0..(Cardinality(StoredOf(store[j].source)) - 1)

\* a store left by an earlier run is emptied by a run that finds no PDF
C17_Witness ==
  /\ ing.run = "second"
  /\ hist.afterFirst # <<>>
  /\ PastClear
  /\ ing.pc = "ended"
  /\ ing.ended = "exited"
  /\ store = <<>>

\* a run past the clear with two chunks of each of two files in the store
C17_WitnessIndexes ==
  /\ PastClear
  /\ ing.pc = "ended"
  /\ \A k \in 1..Len(ing.files) : IndexesOf(ing.files[k]) = {0, 1}
  /\ Len(ing.files) = 2

====
